---- MODULE Spec2Model ----
(***************************************************************************)
(* Model of the dyndns-docker-client reconciliation engine                 *)
(* (update_dyndns.py, notify.py): the polling loop of main(), the provider *)
(* attempt update_provider / BaseProvider.update_unified, and the backoff  *)
(* function handle_no_ip_available.                                        *)
(*                                                                         *)
(* Specifications:                                                         *)
(*   Spec        - main(): startup, then one action per kind of loop       *)
(*                 iteration, with the environment (discovery results,     *)
(*                 provider backends, notification transport, changes of   *)
(*                 config.yaml) chosen nondeterministically.               *)
(*   SpecBackoff - handle_no_ip_available applied to bounded inputs.       *)
(*   SpecNotify  - send_notifications with per-channel cooldown files, a   *)
(*                 clock and reloads of the notify configuration.          *)
(*   SpecGate    - _can_send_notification applied to bounded inputs.       *)
(*   SpecAttempt - update_provider applied to bounded backend and          *)
(*                 transport behaviours.                                   *)
(*   SpecResolver - one IPv4 resolution of the timer pass (IPResolver).    *)
(*   SpecValidate - validate_ipv4 applied to bounded character strings.    *)
(*   SpecLive    - Spec with the loop's scheduling: an iteration that can  *)
(*                 run does run (time.sleep returns).                      *)
(***************************************************************************)
EXTENDS Integers, Sequences, FiniteSets, TLC

VARIABLES
    pc,                 \* position of main(): "init", "loop" (in the while loop),
                        \* "exited" (sys.exit at startup), "startup_crashed" and
                        \* "crashed" (an exception left main before / inside the loop)
    config,             \* module-level config (also state.config): a file content
    timer,              \* main's local timer (seconds)
    providers,          \* main's local providers (sequence of provider names)
    ip_service,         \* main's local ip_service
    ip_interface,       \* main's local ip_interface
    ip6_service,        \* main's local ip6_service
    ip6_interface,      \* main's local ip6_interface
    last_ip,            \* main's local last_ip
    last_ip6,           \* main's local last_ip6
    failed_providers,   \* main's local failed_providers (Undef while unbound)
    resilient_mode,     \* main's local resilient_mode
    state,              \* the DynDNSState instance (the fields main writes)
    consecutive_failures, \* main.consecutive_failures (0 while the attribute is unset)
    elapsed,            \* main's local elapsed (seconds)
    last_config_mtime,  \* main's local last_config_mtime
    file_mtime,         \* config/config.yaml: modification time
    file_content,       \* config/config.yaml: content
    ipfile4,            \* /tmp/last_ip_v4.txt
    ipfile6,            \* /tmp/last_ip_v6.txt
    lastres,            \* history: the most recent resolution attempt
    cycle,              \* history: what the most recent loop iteration / startup did
    hn,                 \* SpecBackoff: argument and result of handle_no_ip_available
    nt,                 \* SpecNotify: clock, cooldown files, notify configuration, history
    gt,                 \* SpecGate: argument and result of _can_send_notification
    ap,                 \* SpecAttempt: inputs and result of update_provider
    rs,                 \* SpecResolver: inputs and result of an IPv4 resolution
    vi                  \* SpecValidate: argument and result of validate_ipv4

mainvars == <<pc, config, timer, providers, ip_service, ip_interface, ip6_service,
              ip6_interface, last_ip, last_ip6, failed_providers, resilient_mode,
              state, consecutive_failures, elapsed, last_config_mtime, file_mtime,
              file_content, ipfile4, ipfile6, lastres, cycle>>

vars == <<mainvars, hn, nt, gt, ap, rs, vi>>

----------------------------------------------------------------------------
(* Bounds of the model *)

\* config.yaml is modified at most this many times
MaxFileChanges == 1

\* the loop's elapsed counter is followed up to this value (it grows without
\* bound only while a rejected reload keeps the loop from its timer work)
MaxElapsed == 10

\* consecutive both-failed resolutions followed in the loop
MaxLoopFailures == 3

\* consecutive failures followed for handle_no_ip_available
MaxFailures == 8

\* the clock of the notification model runs up to this many seconds
MaxNow == 120

\* the longest ip_services list of a resolver configuration
MaxServices == 3

\* the largest number of dot-separated parts of an argument of validate_ipv4
MaxParts == 5

(* Program constants *)

\* check_interval = 2
check_interval == 2

\* the exponent cap in handle_no_ip_available
MaxBackoffFactor == 4

----------------------------------------------------------------------------
(* Values *)

NoneV == "None"
Undef == "Undef"

\* addresses accepted by validate_ipv4 / validate_ipv6
V4 == {"198.51.100.1", "198.51.100.2"}
V6 == {"2001:db8::1"}

Min(a, b) == IF a <= b THEN a ELSE b

RECURSIVE Pow(_, _)
Pow(b, e) == IF e = 0 THEN 1 ELSE b * Pow(b, e - 1)

SeqToSet(s) == {s[i] : i \in 1..Len(s)}

\* Python truthiness of an address-or-None value ("" and None are falsy)
Truthy(x) == x # NoneV /\ x # ""

----------------------------------------------------------------------------
(* Configuration files.  A content is an identifier; Cfg gives the parsed   *)
(* dictionary of the contents that parse to a dictionary.                   *)

ValidContents == {"A", "B"}

\* "unparsable": yaml.safe_load raises; "empty": yaml.safe_load returns None;
\* "notimer": a dictionary without 'timer'; "noproviders": providers: []
Contents == ValidContents \cup {"unparsable", "empty", "notimer", "noproviders"}

BaseCfg ==
    [timer |-> 4, hasTimer |-> TRUE, providers |-> <<"p1", "p2">>,
     ip_service |-> "svc4", ip_services |-> <<>>, interface |-> NoneV,
     ip6_service |-> "svc6", ip6_services |-> <<>>, interface6 |-> NoneV,
     skip_update_on_startup |-> FALSE, notify |-> TRUE,
     network_retry_interval |-> 4, max_failures_before_backoff |-> 1,
     backoff_multiplier |-> 2, max_wait_time |-> 6]

Cfg(c) ==
    CASE c = "A" -> BaseCfg
      [] c = "B" -> [BaseCfg EXCEPT !.timer = 2, !.providers = <<"p2">>,
                        !.ip_service = NoneV, !.ip_services = <<"svc4b", "svc4c">>,
                        !.ip6_service = NoneV,
                        !.skip_update_on_startup = TRUE, !.notify = FALSE]
      [] c = "notimer" -> [BaseCfg EXCEPT !.hasTimer = FALSE]
      [] c = "noproviders" -> [BaseCfg EXCEPT !.providers = <<>>]

\* yaml.safe_load(f): "raise", None or the content (a dictionary)
SafeLoad(c) == IF c = "unparsable" THEN "raise" ELSE IF c = "empty" THEN NoneV ELSE c

\* validate_config(config): "raise" (TypeError on None), TRUE or FALSE as strings
validate_config(c) ==
    IF c = NoneV THEN "raise"
    ELSE IF ~Cfg(c).hasTimer THEN "False"
    ELSE "True"

----------------------------------------------------------------------------
(* One provider attempt: update_provider(provider, ip, ip6)                 *)

\* what a backend call does: returns "updated", "nochg", an error result
\* (False / None) or raises
Outcomes == {"updated", "nochg", "error", "raise"}

\* create_provider(provider) succeeds (the backend's own validate_config
\* accepts the entry); otherwise update_provider falls back to the legacy path
UnifiedValid(p) == p = "p1"

\* The environment of one attempt: the result of the unified backend call, the
\* result of the legacy backend call, and how many of the attempt's
\* send_notifications calls raise (each call of an attempt is made only after
\* every earlier one raised, so the leading count is all that matters)
Scenarios == [b1 : Outcomes, b2 : Outcomes, nfail : 0..4]

\* the legacy branch's except handler of update_provider (lines 860-876)
OuterExcept(hasNotify, sc, calls, out, ns) ==
    IF hasNotify
    THEN [ret |-> IF Len(ns) + 1 <= sc.nfail THEN "raise" ELSE "None",
          calls |-> calls, out |-> out, notifs |-> Append(ns, "ERROR")]
    ELSE [ret |-> "None", calls |-> calls, out |-> out, notifs |-> ns]

\* the legacy implementation (lines 772-859), entered with calls backend calls
\* and the send_notifications calls ns already made
Legacy(hasNotify, sc, calls, ns) ==
    LET raises == hasNotify /\ Len(ns) + 1 <= sc.nfail
        c == calls + 1
    IN CASE sc.b2 = "updated" ->
              IF raises THEN OuterExcept(hasNotify, sc, c, "updated", Append(ns, "UPDATE"))
              ELSE [ret |-> "True", calls |-> c, out |-> "updated",
                    notifs |-> Append(ns, "UPDATE")]
         [] sc.b2 = "nochg" ->
              [ret |-> "True", calls |-> c, out |-> "nochg", notifs |-> ns]
         [] sc.b2 = "error" ->
              IF raises THEN OuterExcept(hasNotify, sc, c, "error", Append(ns, "ERROR"))
              ELSE [ret |-> "False", calls |-> c, out |-> "error",
                    notifs |-> Append(ns, "ERROR")]
         [] sc.b2 = "raise" -> OuterExcept(hasNotify, sc, c, "raise", ns)

\* update_unified with the test of line 305 weakened to "if result": an
\* unchanged record is announced like an update
update_unified_announces_nochg(hasNotify, sc) ==
    LET r1 == hasNotify /\ 1 <= sc.nfail
        r2 == hasNotify /\ 2 <= sc.nfail
    IN CASE sc.b1 \in {"updated", "nochg"} ->
              IF ~r1 THEN [fall |-> FALSE, res |-> sc.b1, notifs |-> <<"UPDATE">>]
              ELSE IF ~r2 THEN [fall |-> FALSE, res |-> "False",
                                notifs |-> <<"UPDATE", "ERROR">>]
              ELSE [fall |-> TRUE, res |-> "raise", notifs |-> <<"UPDATE", "ERROR">>]
         [] sc.b1 = "error" -> [fall |-> FALSE, res |-> "False", notifs |-> <<>>]
         [] sc.b1 = "raise" ->
              IF ~r1 THEN [fall |-> FALSE, res |-> "False", notifs |-> <<"ERROR">>]
              ELSE [fall |-> TRUE, res |-> "raise", notifs |-> <<"ERROR">>]

\* BaseProvider.update_unified as called from update_provider: either a result
\* (fall = FALSE) or an exception that update_provider catches at line 768
update_unified(hasNotify, sc) ==
    LET r1 == hasNotify /\ 1 <= sc.nfail
        r2 == hasNotify /\ 2 <= sc.nfail
    IN CASE sc.b1 = "updated" ->
              IF ~r1 THEN [fall |-> FALSE, res |-> "updated", notifs |-> <<"UPDATE">>]
              ELSE IF ~r2 THEN [fall |-> FALSE, res |-> "False",
                                notifs |-> <<"UPDATE", "ERROR">>]
              ELSE [fall |-> TRUE, res |-> "raise", notifs |-> <<"UPDATE", "ERROR">>]
         [] sc.b1 = "nochg" -> [fall |-> FALSE, res |-> "nochg", notifs |-> <<>>]
         [] sc.b1 = "error" -> [fall |-> FALSE, res |-> "False", notifs |-> <<>>]
         [] sc.b1 = "raise" ->
              IF ~r1 THEN [fall |-> FALSE, res |-> "False", notifs |-> <<"ERROR">>]
              ELSE [fall |-> TRUE, res |-> "raise", notifs |-> <<"ERROR">>]

\* update_provider: ret is what it returns ("True", "False", "None") or "raise";
\* calls counts the backend calls, out is the outcome of the last backend call,
\* notifs lists the levels of the send_notifications calls
update_provider(p, hasNotify, sc) ==
    IF UnifiedValid(p)
    THEN LET u == update_unified(hasNotify, sc)
         IN IF u.fall THEN Legacy(hasNotify, sc, 1, u.notifs)
            ELSE [ret |-> IF u.res \in {"updated", "nochg"} THEN "True" ELSE "False",
                  calls |-> 1, out |-> sc.b1, notifs |-> u.notifs]
    ELSE Legacy(hasNotify, sc, 0, <<>>)

\* every behaviour one attempt of provider p can show
Attempts(p, hasNotify) == {update_provider(p, hasNotify, sc) : sc \in Scenarios}


\* One attempt as the loop's history keeps it: the provider, what
\* update_provider returned, whether the last backend call returned updated or
\* nochg, the number of backend calls, and whether send_notifications was called
Att(p, r) == [p |-> p, ret |-> r.ret, ok |-> r.out \in {"updated", "nochg"},
              calls |-> r.calls, notified |-> r.notifs # <<>>]

AttemptViews(p, hasNotify) == {Att(p, r) : r \in Attempts(p, hasNotify)}

\* Every way a pass over the provider list ps can go, as the sequence of the
\* attempts made: the providers in att are attempted in list order.  With
\* stop (the startup and the reload pass, which call update_provider outside
\* any try block) an attempt that raises ends the pass and the process.
RECURSIVE Runs(_, _, _, _)
Runs(ps, att, hasNotify, stop) ==
    IF ps = <<>> THEN {<<>>}
    ELSE IF Head(ps) \notin att THEN Runs(Tail(ps), att, hasNotify, stop)
    ELSE UNION { IF stop /\ a.ret = "raise"
                 THEN {<<a>>}
                 ELSE {<<a>> \o t : t \in Runs(Tail(ps), att, hasNotify, stop)}
                 : a \in AttemptViews(Head(ps), hasNotify) }

\* the pass ended in an exception that nothing catches
Crashed(run, stop) == stop /\ run # <<>> /\ run[Len(run)].ret = "raise"

\* The providers a pass appends to failed_providers: those whose
\* update_provider result is falsy; in the timer pass also those whose
\* update_provider raised (caught at line 1546)
RECURSIVE FailedOf(_, _)
FailedOf(run, stop) ==
    IF run = <<>> THEN <<>>
    ELSE LET a == Head(run)
             bad == IF stop THEN a.ret \in {"False", "None"} ELSE a.ret # "True"
         IN (IF bad THEN <<a.p>> ELSE <<>>) \o FailedOf(Tail(run), stop)

RECURSIVE SumCalls(_)
SumCalls(run) == IF run = <<>> THEN 0 ELSE Head(run).calls + SumCalls(Tail(run))

AnyNotified(run) == \E i \in 1..Len(run) : run[i].notified

\* the providers attempted, in order, and those whose backend call succeeded
Attempted(run) == [i \in 1..Len(run) |-> run[i].p]
OkSet(run) == {run[i].p : i \in {j \in 1..Len(run) : run[j].ok}}

----------------------------------------------------------------------------
(* Persisted last-known addresses *)

\* load_last_ip: None when the file is absent, else its stripped content
load_last_ip(file) == IF file = "absent" THEN NoneV ELSE file

\* save_last_ip: the new content of the file
save_last_ip(ip) == IF ip = NoneV THEN "" ELSE ip

----------------------------------------------------------------------------
(* handle_no_ip_available(consecutive_failures, config): <<count, wait>> *)

\* mutant of handle_no_ip_available: the backoff starts one failure early
handle_no_ip_available_early(n, cfg) ==
    LET cf == n + 1
        base_wait_time == cfg.network_retry_interval
        backoff_factor == Min(cf - cfg.max_failures_before_backoff, MaxBackoffFactor)
    IN IF cf < cfg.max_failures_before_backoff
       THEN <<cf, base_wait_time>>
       ELSE <<cf, Min(base_wait_time * Pow(cfg.backoff_multiplier, backoff_factor),
                      cfg.max_wait_time)>>

handle_no_ip_available(n, cfg) ==
    LET cf == n + 1
        base_wait_time == cfg.network_retry_interval
        backoff_factor == Min(cf - cfg.max_failures_before_backoff, MaxBackoffFactor)
    IN IF cf <= cfg.max_failures_before_backoff
       THEN <<cf, base_wait_time>>
       ELSE <<cf, Min(base_wait_time * Pow(cfg.backoff_multiplier, backoff_factor),
                      cfg.max_wait_time)>>

----------------------------------------------------------------------------
(* Address resolution.  Each pass reads one source per family; the          *)
(* environment chooses what the source returns (an address the validator    *)
(* accepts, or None).                                                       *)

Results4(src) == IF src = "none" THEN {NoneV} ELSE V4 \cup {NoneV}
Results6(src) == IF src = "none" THEN {NoneV} ELSE V6 \cup {NoneV}

\* startup (lines 1229-1274): the primary service, defaulting to the first
\* entry of the service list, else the interface
StartupService(svc, list) == IF svc # NoneV THEN svc
                             ELSE IF list # <<>> THEN list[1] ELSE NoneV
StartupSrc(svc, iface) == IF svc # NoneV THEN "svc"
                          ELSE IF iface # NoneV THEN "iface" ELSE "none"

\* reload pass (lines 1383-1411)
ReloadSrc4(svc, iface) == IF svc # NoneV THEN "svc"
                          ELSE IF iface # NoneV THEN "iface" ELSE "chain"
ReloadSrc6(cfg, iface) == IF cfg.ip6_service # NoneV \/ cfg.ip6_services # <<>> THEN "chain"
                          ELSE IF iface # NoneV THEN "iface" ELSE "none"

\* timer pass, normal branch (lines 1475-1500)
NormalSrc4(svc, iface) == IF svc # NoneV THEN "svc"
                          ELSE IF iface # NoneV THEN "iface" ELSE "none"
NormalSrc6(cfg, iface) == ReloadSrc6(cfg, iface)

\* timer pass, resilient branch (lines 1438-1443)
ResilientSrc4 == "chain"
ResilientSrc6(cfg) == IF cfg.ip6_service # NoneV \/ cfg.ip6_services # <<>>
                         \/ cfg.interface6 # NoneV THEN "chain" ELSE "none"

----------------------------------------------------------------------------
(* History records *)

\* kind: what the iteration was; att: the providers update_provider was called
\* for, in order; ok: those whose last backend call returned updated or nochg;
\* retry: the failure set at the start of the pass; changed: an address
\* differed from the last-known one; calls: backend calls made; notified:
\* send_notifications was called
NoCycle(kind) == [kind |-> kind, att |-> <<>>, ok |-> {}, retry |-> {},
                  changed |-> FALSE, calls |-> 0, notified |-> FALSE]

PassCycle(kind, run, retry, changed) ==
    [kind |-> kind, att |-> Attempted(run), ok |-> OkSet(run), retry |-> retry,
     changed |-> changed, calls |-> SumCalls(run), notified |-> AnyNotified(run)]

----------------------------------------------------------------------------
(* Notification cooldown (notify.py).  A cooldown file is absent, holds     *)
(* text that float() rejects ("corrupt"), cannot be read ("unreadable") or  *)
(* holds the time of the last update ("ok").                                *)

Levels == {"UPDATE", "ERROR"}

\* the channels of the model, in the order send_notifications handles them
ChannelOrder == <<"slack", "email">>
Channels == SeqToSet(ChannelOrder)

Absent == [st |-> "absent", t |-> 0]

\* the seconds the clock advances between two events
ClockSteps == {30}

Times == {t \in 0..MaxNow : t % 30 = 0}

FileStates == {Absent, [st |-> "corrupt", t |-> 0], [st |-> "unreadable", t |-> 0]}
                 \cup {[st |-> "ok", t |-> t] : t \in Times}

\* mutant of can_send_notification: a send exactly at the end of the cooldown
\* is still suppressed
can_send_notification_strict(file, cooldown_minutes, now) ==
    IF cooldown_minutes <= 0 THEN TRUE
    ELSE IF file.st = "absent" THEN TRUE
    ELSE IF file.st \in {"corrupt", "unreadable"} THEN TRUE
    ELSE LET time_since_last == now - file.t
             remaining_cooldown == (cooldown_minutes * 60) - time_since_last
         IN remaining_cooldown < 0

\* _can_send_notification(service, cooldown_minutes), with the content of the
\* service's cooldown file and time.time() as arguments
can_send_notification(file, cooldown_minutes, now) ==
    IF cooldown_minutes <= 0 THEN TRUE
    ELSE IF file.st = "absent" THEN TRUE
    ELSE IF file.st \in {"corrupt", "unreadable"} THEN TRUE
    ELSE LET time_since_last == now - file.t
             remaining_cooldown == (cooldown_minutes * 60) - time_since_last
         IN remaining_cooldown <= 0

\* the notify sections a configuration file can hold; cooldown is read with
\* cfg.get("cooldown", 0)
ChannelCfg(enabled, notify_on, hasCooldown, cooldown) ==
    [enabled |-> enabled, notify_on |-> notify_on, hasCooldown |-> hasCooldown,
     cooldown |-> cooldown]

NotifyConfigs ==
    { [reset |-> r,
       ch |-> [c \in Channels |->
                 IF c = "slack" THEN ChannelCfg(se, Levels, TRUE, 1)
                 ELSE ChannelCfg(TRUE, {"ERROR"}, TRUE, 1)]] :
        r \in BOOLEAN, se \in BOOLEAN }

Cooldown(c) == IF c.hasCooldown THEN c.cooldown ELSE 0

\* what the transport of a channel does: delivers, fails inside its own
\* handler, or raises out of notify_slack (the second post in its handler)
Transports == {tr \in [Channels -> {"ok", "fail", "raise"}] : tr["email"] # "raise"}

\* the per-channel blocks of send_notifications from block i on
RECURSIVE SendFrom(_, _, _, _, _, _)
SendFrom(i, cfg, level, now, tr, acc) ==
    IF i > Len(ChannelOrder) THEN acc
    ELSE LET c == ChannelOrder[i]
             ccfg == cfg.ch[c]
             enabled == ccfg.enabled
             level_match == enabled /\ level \in ccfg.notify_on
         IN IF ~(enabled /\ level_match) THEN SendFrom(i + 1, cfg, level, now, tr, acc)
            ELSE IF ~can_send_notification(acc.files[c], Cooldown(ccfg), now)
            THEN SendFrom(i + 1, cfg, level, now, tr, acc)
            ELSE IF tr[c] = "raise" THEN [acc EXCEPT !.raised = TRUE]
            ELSE SendFrom(i + 1, cfg, level, now, tr,
                          [acc EXCEPT !.files[c] = [st |-> "ok", t |-> now],
                                      !.delivered = @ \cup (IF tr[c] = "ok" THEN {c} ELSE {})])

\* send_notifications(config, level, ...): the new cooldown files, the
\* (mutated) config, the channels that delivered, and whether it raised
send_notifications(cfg, level, now, files, tr) ==
    LET f0 == IF cfg.reset THEN [c \in Channels |-> Absent] ELSE files
        r == SendFrom(1, cfg, level, now, tr,
                      [files |-> f0, delivered |-> {}, raised |-> FALSE])
    IN [files |-> r.files, cfg |-> [cfg EXCEPT !.reset = FALSE],
        delivered |-> r.delivered, raised |-> r.raised]

NoDispatch == [n |-> 0, last |-> 0, prev |-> 0]

InitNt ==
    nt = [now |-> 0,
          files |-> [c \in Channels |-> Absent],
          ncfg |-> [reset |-> FALSE,
                    ch |-> [c \in Channels |-> ChannelCfg(TRUE, Levels, TRUE, 1)]],
          disp |-> [c \in Channels |-> NoDispatch]]

InitGt == gt = [file |-> Absent, cooldown |-> 0, now |-> 0, res |-> FALSE, called |-> FALSE]

\* update_provider has not been called: no backend call, no send_notifications call
NoResult == [ret |-> "None", calls |-> 0, out |-> "none", notifs |-> <<>>]

\* One call of update_provider from a pass of main: the provider, whether a
\* notify configuration exists, the environment of the attempt, whether the
\* calling pass is the startup or reload pass (stop: the call is outside any
\* try block) or the timer pass, and the result
AttemptInputs ==
    [p : {"p1", "p2"}, hasNotify : BOOLEAN, sc : Scenarios, stop : BOOLEAN,
     r : {NoResult}, called : {FALSE}]

InitAp == ap = [p |-> "p1", hasNotify |-> FALSE,
                sc |-> [b1 |-> "nochg", b2 |-> "nochg", nfail |-> 0],
                stop |-> FALSE, r |-> NoResult, called |-> FALSE]

----------------------------------------------------------------------------
(* IPv4 resolution: get_public_ip, IPResolver and the two resolution        *)
(* branches of the timer pass.                                              *)

\* the services a configuration can name
Svc == {"A", "B", "C"}

\* the built-in services of _get_services (lines 1049-1056)
DefaultPrimary == "https://api.ipify.org"
fallback_services == <<"https://ifconfig.me/ip", "https://icanhazip.com",
                       "https://checkip.amazonaws.com", "https://ipecho.net/plain",
                       "https://myexternalip.com/raw">>

\* what an HTTP request to a service does: answers with its view of the
\* address, answers with text that is no address, or fails (requests raises)
Responses == {"valid", "garbage", "raise"}

\* the address a service reports; the address on the interface
Addr(s) == CASE s = "A" -> "203.0.113.1"
             [] s = "B" -> "203.0.113.2"
             [] s = "C" -> "203.0.113.3"
             [] OTHER -> "203.0.113.9"
InterfaceAddr == "192.168.1.100"

\* validate_ipv4: four decimal parts between 0 and 255
validate_ipv4(ip) == ip \in {Addr("A"), Addr("B"), Addr("C"), Addr(DefaultPrimary),
                             InterfaceAddr}

\* the configurations of the resolver: ip_service (NoneV: key absent),
\* ip_services, interface (NoneV: key absent) and enable_interface_fallback
\* ("absent", "true" or "false")
ServiceLists == UNION {[1..n -> Svc] : n \in 0..MaxServices}
ResolverConfigs ==
    [ip_service : {NoneV, "A"}, ip_services : ServiceLists,
     interface : {NoneV, "eth0"}, fallback : {"absent", "true", "false"}]

\* the environment of one resolution: the response of every configured
\* service, the response of the built-in services, and what
\* get_interface_ipv4 does (an address, None, or an exception)
ResolverEnvs ==
    [resp : [Svc -> Responses], builtin : Responses,
     probe : {InterfaceAddr, NoneV, "raise"}]

Response(env, s) == IF s \in Svc THEN env.resp[s] ELSE env.builtin

\* get_public_ip(ip_service): the validated address, or None after an invalid
\* answer or any exception
get_public_ip(env, s) ==
    LET r == Response(env, s)
        ip == IF r = "valid" THEN Addr(s) ELSE "<html>"
    IN IF r = "raise" THEN NoneV
       ELSE IF validate_ipv4(ip) THEN ip ELSE NoneV

\* the order-preserving removal of duplicates of lines 1070-1074
RECURSIVE unique_services(_, _)
unique_services(services, acc) ==
    IF services = <<>> THEN acc
    ELSE unique_services(Tail(services),
                         IF Head(services) \in SeqToSet(acc) THEN acc
                         ELSE Append(acc, Head(services)))

\* IPResolver._get_services('ipv4')
get_services(cfg) ==
    LET services == cfg.ip_services
        primary_service == IF cfg.ip_service = NoneV THEN DefaultPrimary
                           ELSE cfg.ip_service
    IN unique_services(IF services = <<>>
                       THEN <<primary_service>> \o fallback_services
                       ELSE services, <<>>)

\* _get_interface_ip without the try block of lines 1089-1096: an exception of
\* get_interface_ipv4 leaves it
get_interface_ip_uncaught(cfg, env) ==
    IF cfg.interface = NoneV THEN [ip |-> NoneV, probed |-> FALSE, raised |-> FALSE]
    ELSE [ip |-> IF env.probe = "raise" THEN NoneV ELSE env.probe, probed |-> TRUE,
          raised |-> env.probe = "raise"]

\* IPResolver._get_interface_ip('ipv4'): the address, whether
\* get_interface_ipv4 was called, and whether an exception leaves it
get_interface_ip(cfg, env) ==
    IF cfg.interface = NoneV THEN [ip |-> NoneV, probed |-> FALSE, raised |-> FALSE]
    ELSE [ip |-> IF env.probe = "raise" THEN NoneV ELSE env.probe, probed |-> TRUE,
          raised |-> FALSE]

\* the loop of get_ip_with_fallback without the return of line 1024: every
\* service is queried and the last accepted answer wins
RECURSIVE TryServices_exhaustive(_, _, _, _)
TryServices_exhaustive(services, i, env, queried) ==
    IF i > Len(services) THEN [ip |-> NoneV, queried |-> queried]
    ELSE LET ip == get_public_ip(env, services[i])
             q == Append(queried, services[i])
             rest == TryServices_exhaustive(services, i + 1, env, q)
         IN IF ip # NoneV /\ validate_ipv4(ip) /\ rest.ip = NoneV
            THEN [ip |-> ip, queried |-> rest.queried]
            ELSE rest

\* the loop over the services of get_ip_with_fallback from position i on:
\* the address returned (NoneV when the loop ends without a return) and the
\* services queried so far
RECURSIVE TryServices(_, _, _, _)
TryServices(services, i, env, queried) ==
    IF i > Len(services) THEN [ip |-> NoneV, queried |-> queried]
    ELSE LET ip == get_public_ip(env, services[i])
             q == Append(queried, services[i])
         IN IF ip # NoneV /\ validate_ipv4(ip) THEN [ip |-> ip, queried |-> q]
            ELSE TryServices(services, i + 1, env, q)

\* get_ip_with_fallback without the test of line 1034: the interface is
\* probed whatever enable_interface_fallback says
get_ip_with_fallback_always_probes(cfg, env) ==
    LET t == TryServices(get_services(cfg), 1, env, <<>>)
    IN IF t.ip # NoneV
       THEN [ip |-> t.ip, queried |-> t.queried, probed |-> FALSE, raised |-> FALSE]
       ELSE LET f == get_interface_ip(cfg, env)
            IN [ip |-> f.ip, queried |-> t.queried, probed |-> f.probed,
                raised |-> f.raised]

\* IPResolver.get_ip_with_fallback('ipv4'): the result, the services queried
\* in order, whether the interface was probed, and whether an exception
\* leaves the method (the call of line 1035 is outside any try block)
get_ip_with_fallback(cfg, env) ==
    LET t == TryServices(get_services(cfg), 1, env, <<>>)
    IN IF t.ip # NoneV
       THEN [ip |-> t.ip, queried |-> t.queried, probed |-> FALSE, raised |-> FALSE]
       ELSE IF cfg.fallback # "false"
       THEN LET f == get_interface_ip(cfg, env)
            IN [ip |-> f.ip, queried |-> t.queried, probed |-> f.probed,
                raised |-> f.raised]
       ELSE [ip |-> NoneV, queried |-> t.queried, probed |-> FALSE, raised |-> FALSE]

\* main's locals ip_service and ip_interface as the startup (lines 1229-1238)
\* and the reload (lines 1376-1377) bind them
BoundService(cfg, bind) ==
    IF bind = "startup" THEN StartupService(cfg.ip_service, cfg.ip_services)
    ELSE cfg.ip_service

\* the IPv4 resolution of the timer pass in its normal branch (lines
\* 1475-1488): get_public_ip never raises, so the handler of line 1479 with
\* its call of get_current_ip_resilient is never entered
normal_resolution(cfg, bind, env) ==
    LET svc == BoundService(cfg, bind)
    IN IF svc # NoneV
       THEN [ip |-> get_public_ip(env, svc), queried |-> <<svc>>, probed |-> FALSE,
             raised |-> FALSE]
       ELSE IF cfg.interface # NoneV
       THEN [ip |-> IF env.probe = "raise" THEN NoneV ELSE env.probe,
             queried |-> <<>>, probed |-> TRUE, raised |-> FALSE]
       ELSE [ip |-> NoneV, queried |-> <<>>, probed |-> FALSE, raised |-> FALSE]

NoResolution == [ip |-> NoneV, queried |-> <<>>, probed |-> FALSE, raised |-> FALSE]

InitRs == rs = [cfg |-> [ip_service |-> NoneV, ip_services |-> <<>>,
                         interface |-> NoneV, fallback |-> "absent"],
                env |-> [resp |-> [s \in Svc |-> "raise"], builtin |-> "raise",
                         probe |-> NoneV],
                mode |-> "none", r |-> NoResolution]

----------------------------------------------------------------------------
(* validate_ipv4 on character strings.  A str is a sequence of characters;  *)
(* an argument is a record so that None can be passed as well.              *)

AsciiDigits == {"0", "1", "2", "3", "4", "5", "6", "7", "8", "9"}

\* U+00B2: str.isdigit() is True for it, int() raises ValueError on it
SuperscriptTwo == "SUPERSCRIPT TWO"

\* U+0663: a decimal digit, str.isdigit() is True and int() gives 3
ArabicIndicThree == "ARABIC-INDIC DIGIT THREE"

\* the characters int() reads as decimal digits
DecimalDigits == AsciiDigits \cup {ArabicIndicThree}

DigitValue(c) ==
    CASE c = "0" -> 0 [] c = "1" -> 1 [] c = "2" -> 2 [] c = "3" -> 3
      [] c = "4" -> 4 [] c = "5" -> 5 [] c = "6" -> 6 [] c = "7" -> 7
      [] c = "8" -> 8 [] c = "9" -> 9 [] c = ArabicIndicThree -> 3

\* ip.split('.')
RECURSIVE split(_)
split(s) ==
    LET dots == {i \in 1..Len(s) : s[i] = "."}
    IN IF dots = {} THEN <<s>>
       ELSE LET i == CHOOSE d \in dots : \A e \in dots : d <= e
            IN <<SubSeq(s, 1, i - 1)>> \o split(SubSeq(s, i + 1, Len(s)))

\* part.isdigit(): not empty and every character is a digit
isdigit(part) ==
    /\ Len(part) > 0
    /\ \A i \in 1..Len(part) : part[i] \in DecimalDigits \cup {SuperscriptTwo}

RECURSIVE int_digits(_)
int_digits(ds) ==
    IF ds = <<>> THEN 0
    ELSE 10 * int_digits(SubSeq(ds, 1, Len(ds) - 1)) + DigitValue(ds[Len(ds)])

\* int(part): an optional sign and decimal digits, ValueError otherwise
int(part) ==
    LET neg == Len(part) > 0 /\ part[1] = "-"
        ds == IF neg THEN Tail(part) ELSE part
    IN IF Len(ds) > 0 /\ \A i \in 1..Len(ds) : ds[i] \in DecimalDigits
       THEN [raised |-> FALSE, v |-> IF neg THEN 0 - int_digits(ds) ELSE int_digits(ds)]
       ELSE [raised |-> TRUE, v |-> 0]

\* the for loop of validate_ipv4, lines 960-963: "True" when it runs to its
\* end, "False" at its return False, "ValueError" when int() raises
RECURSIVE check_parts(_)
check_parts(parts) ==
    IF parts = <<>> THEN "True"
    ELSE LET part == Head(parts)
         IN IF ~isdigit(part) THEN "False"
            ELSE IF int(part).raised THEN "ValueError"
            ELSE IF int(part).v < 0 \/ int(part).v > 255 THEN "False"
            ELSE check_parts(Tail(parts))

\* the body of the try, lines 957-964 (None has no split: AttributeError)
validate_ipv4_try(ip) ==
    IF ip.kind # "str" THEN "AttributeError"
    ELSE LET parts == split(ip.chars)
         IN IF Len(parts) # 4 THEN "False" ELSE check_parts(parts)

\* validate_ipv4 without its except clause
validate_ipv4_uncaught(ip) == validate_ipv4_try(ip)

\* validate_ipv4 on a character string, lines 954-967: except: return False
validate_ipv4_str(ip) ==
    LET r == validate_ipv4_try(ip)
    IN IF r \in {"True", "False"} THEN r ELSE "False"

\* the parts the arguments are made of
Pieces == { <<>>, <<"0">>, <<"2", "5", "5">>, <<"2", "5", "6">>, <<"0", "7">>,
            <<"-", "1">>, <<"a">>, <<SuperscriptTwo>>, <<ArabicIndicThree>> }

RECURSIVE join(_)
join(ps) ==
    IF Len(ps) = 1 THEN ps[1] ELSE ps[1] \o <<".">> \o join(Tail(ps))

ValidateInputs ==
    {[kind |-> "None", chars |-> <<>>]} \cup
    {[kind |-> "str", chars |-> join(ps)] :
        ps \in UNION {[1..n -> Pieces] : n \in 1..MaxParts}}

InitVi == vi = [arg |-> [kind |-> "None", chars |-> <<>>], r |-> "none",
                called |-> FALSE]

----------------------------------------------------------------------------
(* main(): startup *)

InitMain ==
    /\ pc = "init"
    /\ config = NoneV
    /\ timer = 0
    /\ providers = <<>>
    /\ ip_service = NoneV /\ ip_interface = NoneV
    /\ ip6_service = NoneV /\ ip6_interface = NoneV
    /\ last_ip = NoneV /\ last_ip6 = NoneV
    /\ failed_providers = Undef
    /\ resilient_mode = FALSE
    /\ state = [last_ipv4 |-> NoneV, last_ipv6 |-> NoneV, resilient_mode |-> FALSE,
                failed_providers |-> <<>>]
    /\ consecutive_failures = 0
    /\ elapsed = 0
    /\ last_config_mtime = 0
    /\ file_mtime = 0
    /\ file_content \in Contents
    /\ ipfile4 \in {"absent", "", "198.51.100.1"}
    /\ ipfile6 = "absent"
    /\ lastres = [r4 |-> NoneV, r6 |-> NoneV, at |-> "none"]
    /\ cycle = NoCycle("none")

InitHn == hn = [cfg |-> BaseCfg, arg |-> 0, n |-> 0, wait |-> 0, called |-> FALSE]

Init == InitMain /\ InitHn /\ InitNt /\ InitGt /\ InitAp /\ InitRs /\ InitVi

\* fatal startup errors (lines 1183-1224): sys.exit(1)
StartupExit ==
    /\ pc = "init"
    /\ \/ SafeLoad(file_content) \in {"raise", NoneV}
       \/ /\ SafeLoad(file_content) \notin {"raise", NoneV}
          /\ \/ Cfg(file_content).providers = <<>>
             \/ validate_config(file_content) # "True"
    /\ pc' = "exited"
    /\ config' = IF SafeLoad(file_content) = "raise" THEN config ELSE SafeLoad(file_content)
    /\ UNCHANGED <<timer, providers, ip_service, ip_interface, ip6_service,
                   ip6_interface, last_ip, last_ip6, failed_providers, resilient_mode,
                   state, consecutive_failures, elapsed, last_config_mtime, file_mtime,
                   file_content, ipfile4, ipfile6, lastres, cycle, hn, nt, gt, ap, rs, vi>>

StartupOk(c) ==
    /\ SafeLoad(c) \notin {"raise", NoneV}
    /\ Cfg(c).providers # <<>>
    /\ validate_config(c) = "True"

\* lines 1225-1342 with the resolved addresses r4, r6 and the pass run
StartupWith(cfg, r4, r6, skip, run) ==
    /\ config' = file_content
    /\ timer' = cfg.timer
    /\ providers' = cfg.providers
    /\ ip_service' = StartupService(cfg.ip_service, cfg.ip_services)
    /\ ip_interface' = cfg.interface
    /\ ip6_service' = StartupService(cfg.ip6_service, cfg.ip6_services)
    /\ ip6_interface' = cfg.interface6
    /\ resilient_mode' = (~Truthy(r4) /\ ~Truthy(r6))
    /\ lastres' = [r4 |-> r4, r6 |-> r6, at |-> "startup"]
    /\ last_config_mtime' = file_mtime
    /\ elapsed' = 0
    /\ UNCHANGED <<consecutive_failures, file_mtime, file_content, hn, nt, gt, ap, rs, vi>>
    /\ IF skip
       THEN /\ pc' = "loop"
            /\ ipfile4' = save_last_ip(r4) /\ ipfile6' = save_last_ip(r6)
            /\ last_ip' = r4 /\ last_ip6' = r6
            /\ state' = [state EXCEPT !.last_ipv4 = r4, !.last_ipv6 = r6,
                                      !.resilient_mode = ~Truthy(r4) /\ ~Truthy(r6)]
            /\ UNCHANGED failed_providers
            /\ cycle' = NoCycle("startup_skip")
       ELSE /\ failed_providers' = FailedOf(run, TRUE)
            /\ cycle' = PassCycle("startup", run, {}, TRUE)
            /\ IF Crashed(run, TRUE)
               THEN /\ pc' = "startup_crashed"
                    /\ state' = [state EXCEPT !.failed_providers = FailedOf(run, TRUE),
                                      !.resilient_mode = ~Truthy(r4) /\ ~Truthy(r6)]
                    /\ last_ip' = load_last_ip(ipfile4)
                    /\ last_ip6' = load_last_ip(ipfile6)
                    /\ UNCHANGED <<ipfile4, ipfile6>>
               ELSE /\ pc' = "loop"
                    /\ ipfile4' = save_last_ip(r4) /\ ipfile6' = save_last_ip(r6)
                    /\ last_ip' = r4 /\ last_ip6' = r6
                    /\ state' = [last_ipv4 |-> r4, last_ipv6 |-> r6,
                                 resilient_mode |-> ~Truthy(r4) /\ ~Truthy(r6),
                                 failed_providers |-> FailedOf(run, TRUE)]

Startup ==
    /\ pc = "init"
    /\ StartupOk(file_content)
    /\ LET cfg == Cfg(file_content)
           src4 == StartupSrc(StartupService(cfg.ip_service, cfg.ip_services), cfg.interface)
           src6 == StartupSrc(StartupService(cfg.ip6_service, cfg.ip6_services), cfg.interface6)
       IN \E r4 \in Results4(src4), r6 \in Results6(src6) :
            LET old4 == load_last_ip(ipfile4)
                old6 == load_last_ip(ipfile6)
                ip_changed == IF Truthy(r4) THEN r4 # old4 ELSE FALSE
                ip6_changed == IF Truthy(r6) THEN r6 # old6 ELSE FALSE
                skip == cfg.skip_update_on_startup /\ ~ip_changed /\ ~ip6_changed
            IN IF skip
               THEN StartupWith(cfg, r4, r6, TRUE, <<>>)
               ELSE \E run \in Runs(cfg.providers, SeqToSet(cfg.providers), cfg.notify, TRUE) :
                        StartupWith(cfg, r4, r6, FALSE, run)


----------------------------------------------------------------------------
(* The environment modifies config/config.yaml *)

FileChange ==
    /\ pc = "loop"
    /\ file_mtime < MaxFileChanges
    /\ file_mtime' = file_mtime + 1
    /\ file_content' \in Contents
    /\ UNCHANGED <<pc, config, timer, providers, ip_service, ip_interface, ip6_service,
                   ip6_interface, last_ip, last_ip6, failed_providers, resilient_mode,
                   state, consecutive_failures, elapsed, last_config_mtime,
                   ipfile4, ipfile6, lastres, cycle, hn, nt, gt, ap, rs, vi>>

----------------------------------------------------------------------------
(* main(): one iteration of the while loop (lines 1344-1570).  Every        *)
(* iteration starts with elapsed += check_interval.                         *)

ConfigChanged == file_mtime # last_config_mtime

\* lines 1350-1361: the changed file does not parse (the exception leaves
\* config as it was) or fails validate_config (config and state.config are
\* already rebound); continue
TickReloadRejected ==
    /\ pc = "loop"
    /\ ConfigChanged
    /\ elapsed < MaxElapsed
    /\ \/ SafeLoad(file_content) = "raise" /\ config' = config
       \/ /\ SafeLoad(file_content) \notin {"raise", NoneV}
          /\ validate_config(SafeLoad(file_content)) = "False"
          /\ config' = SafeLoad(file_content)
    /\ elapsed' = elapsed + check_interval
    /\ cycle' = NoCycle("rejected")
    /\ UNCHANGED <<pc, timer, providers, ip_service, ip_interface, ip6_service,
                   ip6_interface, last_ip, last_ip6, failed_providers, resilient_mode,
                   state, consecutive_failures, last_config_mtime, file_mtime,
                   file_content, ipfile4, ipfile6, lastres, hn, nt, gt, ap, rs, vi>>

\* lines 1354-1359: the changed file is empty, yaml.safe_load returns None and
\* validate_config(None) raises TypeError out of main
TickReloadCrash ==
    /\ pc = "loop"
    /\ ConfigChanged
    /\ SafeLoad(file_content) = NoneV
    /\ validate_config(SafeLoad(file_content)) = "raise"
    /\ config' = NoneV
    /\ elapsed' = elapsed + check_interval
    /\ pc' = "crashed"
    /\ cycle' = NoCycle("reload_crash")
    /\ UNCHANGED <<timer, providers, ip_service, ip_interface, ip6_service,
                   ip6_interface, last_ip, last_ip6, failed_providers, resilient_mode,
                   state, consecutive_failures, last_config_mtime, file_mtime,
                   file_content, ipfile4, ipfile6, lastres, hn, nt, gt, ap, rs, vi>>

\* lines 1363-1432: the changed file is accepted
TickReloadPass ==
    /\ pc = "loop"
    /\ ConfigChanged
    /\ SafeLoad(file_content) \notin {"raise", NoneV}
    /\ validate_config(SafeLoad(file_content)) = "True"
    /\ LET cfg == Cfg(file_content)
       IN /\ config' = file_content
          /\ timer' = cfg.timer
          /\ ip_service' = cfg.ip_service
          /\ ip_interface' = cfg.interface
          /\ ip6_service' = cfg.ip6_service
          /\ ip6_interface' = cfg.interface6
          /\ providers' = cfg.providers
          /\ last_config_mtime' = file_mtime
          /\ \E r4 \in Results4(ReloadSrc4(cfg.ip_service, cfg.interface)),
                r6 \in Results6(ReloadSrc6(cfg, cfg.interface6)),
                run \in Runs(cfg.providers, SeqToSet(cfg.providers), cfg.notify, TRUE) :
               /\ lastres' = [r4 |-> r4, r6 |-> r6, at |-> "reload"]
               /\ failed_providers' = FailedOf(run, TRUE)
               /\ cycle' = PassCycle("reload", run, {}, TRUE)
               /\ IF Crashed(run, TRUE)
                  THEN /\ pc' = "crashed"
                       /\ state' = [state EXCEPT !.failed_providers = FailedOf(run, TRUE)]
                       /\ elapsed' = elapsed + check_interval
                       /\ UNCHANGED <<last_ip, last_ip6>>
                  ELSE /\ pc' = "loop"
                       /\ last_ip' = r4 /\ last_ip6' = r6
                       /\ state' = [state EXCEPT !.failed_providers = FailedOf(run, TRUE),
                                                 !.last_ipv4 = r4, !.last_ipv6 = r6]
                       /\ elapsed' = 0
    /\ UNCHANGED <<resilient_mode, consecutive_failures, file_mtime, file_content,
                   ipfile4, ipfile6, hn, nt, gt, ap, rs, vi>>

\* line 1435 false: the timer has not elapsed
TickIdle ==
    /\ pc = "loop"
    /\ ~ConfigChanged
    /\ elapsed + check_interval < timer
    /\ elapsed' = elapsed + check_interval
    /\ cycle' = NoCycle("idle")
    /\ UNCHANGED <<pc, config, timer, providers, ip_service, ip_interface, ip6_service,
                   ip6_interface, last_ip, last_ip6, failed_providers, resilient_mode,
                   state, consecutive_failures, last_config_mtime, file_mtime,
                   file_content, ipfile4, ipfile6, lastres, hn, nt, gt, ap, rs, vi>>

TimerDue == pc = "loop" /\ ~ConfigChanged /\ elapsed + check_interval >= timer

Resilient == resilient_mode \/ state.resilient_mode

\* lines 1445-1460: resilient branch, no address for either family
TickResilientFail ==
    /\ TimerDue
    /\ Resilient
    /\ consecutive_failures < MaxLoopFailures
    /\ \E r4 \in Results4(ResilientSrc4), r6 \in Results6(ResilientSrc6(Cfg(config))) :
         /\ ~Truthy(r4) /\ ~Truthy(r6)
         /\ lastres' = [r4 |-> r4, r6 |-> r6, at |-> "resilient"]
    /\ LET h == handle_no_ip_available(consecutive_failures, Cfg(config))
       IN /\ consecutive_failures' = h[1]
          /\ timer' = h[2]
    /\ elapsed' = 0
    /\ cycle' = NoCycle("resilient_fail")
    /\ UNCHANGED <<pc, config, providers, ip_service, ip_interface, ip6_service,
                   ip6_interface, last_ip, last_ip6, failed_providers, resilient_mode,
                   state, last_config_mtime, file_mtime, file_content,
                   ipfile4, ipfile6, hn, nt, gt, ap, rs, vi>>

\* lines 1502-1507: normal branch, no address for either family
TickNormalFail ==
    /\ TimerDue
    /\ ~Resilient
    /\ \E r4 \in Results4(NormalSrc4(ip_service, ip_interface)),
          r6 \in Results6(NormalSrc6(Cfg(config), ip6_interface)) :
         /\ ~Truthy(r4) /\ ~Truthy(r6)
         /\ lastres' = [r4 |-> r4, r6 |-> r6, at |-> "normal"]
    /\ resilient_mode' = TRUE
    /\ state' = [state EXCEPT !.resilient_mode = TRUE]
    /\ elapsed' = elapsed + check_interval
    /\ cycle' = NoCycle("normal_fail")
    /\ UNCHANGED <<pc, config, timer, providers, ip_service, ip_interface, ip6_service,
                   ip6_interface, last_ip, last_ip6, failed_providers,
                   consecutive_failures, last_config_mtime, file_mtime, file_content,
                   ipfile4, ipfile6, hn, nt, gt, ap, rs, vi>>

\* The timer-triggered resolutions that yield an address, in the branch the
\* loop is in
TimerResolved(r4, r6) ==
    /\ IF Resilient
       THEN r4 \in Results4(ResilientSrc4) /\ r6 \in Results6(ResilientSrc6(Cfg(config)))
       ELSE /\ r4 \in Results4(NormalSrc4(ip_service, ip_interface))
            /\ r6 \in Results6(NormalSrc6(Cfg(config), ip6_interface))
    /\ Truthy(r4) \/ Truthy(r6)

\* lines 1461-1472: what leaving the resilient branch with an address assigns
AfterResolved(r4, r6) ==
    /\ lastres' = [r4 |-> r4, r6 |-> r6, at |-> IF Resilient THEN "resilient" ELSE "normal"]
    /\ IF Resilient
       THEN /\ consecutive_failures' = 0
            /\ resilient_mode' = FALSE
            /\ timer' = Cfg(config).timer
       ELSE UNCHANGED <<consecutive_failures, resilient_mode, timer>>

\* mutant of Changed: every resolved address counts as changed
ChangedAlways(cur, last) == cur # NoneV

\* lines 1510-1511
Changed(cur, last) == IF cur # NoneV THEN cur # last ELSE FALSE

\* line 1526
NeedsUpdate(r4, r6) ==
    \/ Changed(r4, last_ip) \/ Changed(r6, last_ip6)
    \/ failed_providers # <<>> \/ state.failed_providers # <<>>

\* line 1539: the providers attempted in a timer pass
Eligible(retry, changed) == IF changed THEN SeqToSet(providers) ELSE retry

\* lines 1526 / 1533: failed_providers is read while unbound (the startup
\* skipped its provider pass and no reload has run): UnboundLocalError
TickTimerCrash ==
    /\ TimerDue
    /\ failed_providers = Undef
    /\ \E r4 \in V4 \cup {NoneV}, r6 \in V6 \cup {NoneV} :
         /\ TimerResolved(r4, r6)
         /\ AfterResolved(r4, r6)
         /\ cycle' = [NoCycle("timer_crash") EXCEPT
                         !.changed = Changed(r4, last_ip) \/ Changed(r6, last_ip6)]
    /\ state' = [state EXCEPT !.resilient_mode = FALSE]
    /\ elapsed' = elapsed + check_interval
    /\ pc' = "crashed"
    /\ UNCHANGED <<config, providers, ip_service, ip_interface, ip6_service,
                   ip6_interface, last_ip, last_ip6, failed_providers,
                   last_config_mtime, file_mtime, file_content, ipfile4, ipfile6, hn, nt, gt, ap, rs, vi>>

\* lines 1526-1563: an address changed or a provider is in the failure set
TickTimerPass ==
    /\ TimerDue
    /\ failed_providers # Undef
    /\ \E r4 \in V4 \cup {NoneV}, r6 \in V6 \cup {NoneV} :
         /\ TimerResolved(r4, r6)
         /\ NeedsUpdate(r4, r6)
         /\ AfterResolved(r4, r6)
         /\ LET changed == Changed(r4, last_ip) \/ Changed(r6, last_ip6)
                retry_providers == SeqToSet(failed_providers)
            IN \E run \in Runs(providers, Eligible(retry_providers, changed),
                               Cfg(config).notify, FALSE) :
                 /\ failed_providers' = FailedOf(run, FALSE)
                 /\ state' = [last_ipv4 |-> r4, last_ipv6 |-> r6,
                              resilient_mode |-> FALSE,
                              failed_providers |-> FailedOf(run, FALSE)]
                 /\ cycle' = PassCycle("timer", run, retry_providers, changed)
         /\ ipfile4' = IF Truthy(r4) THEN save_last_ip(r4) ELSE ipfile4
         /\ ipfile6' = IF Truthy(r6) THEN save_last_ip(r6) ELSE ipfile6
         /\ last_ip' = r4
         /\ last_ip6' = r6
    /\ elapsed' = 0
    /\ UNCHANGED <<pc, config, providers, ip_service, ip_interface, ip6_service,
                   ip6_interface, last_config_mtime, file_mtime, file_content, hn, nt, gt, ap, rs, vi>>

\* lines 1564-1570: nothing changed and no provider is in the failure set
TickTimerNoUpdate ==
    /\ TimerDue
    /\ failed_providers # Undef
    /\ \E r4 \in V4 \cup {NoneV}, r6 \in V6 \cup {NoneV} :
         /\ TimerResolved(r4, r6)
         /\ ~NeedsUpdate(r4, r6)
         /\ AfterResolved(r4, r6)
         /\ cycle' = NoCycle("timer_noupdate")
    /\ state' = [state EXCEPT !.resilient_mode = FALSE]
    /\ elapsed' = 0
    /\ UNCHANGED <<pc, config, providers, ip_service, ip_interface, ip6_service,
                   ip6_interface, last_ip, last_ip6, failed_providers,
                   last_config_mtime, file_mtime, file_content, ipfile4, ipfile6, hn, nt, gt, ap, rs, vi>>

Next ==
    \/ StartupExit
    \/ Startup
    \/ FileChange
    \/ TickReloadRejected
    \/ TickReloadCrash
    \/ TickReloadPass
    \/ TickIdle
    \/ TickResilientFail
    \/ TickNormalFail
    \/ TickTimerCrash
    \/ TickTimerPass
    \/ TickTimerNoUpdate

Spec == Init /\ [][Next]_vars

\* the steps main itself takes: the startup and the iterations of the loop
MainNext ==
    \/ StartupExit \/ Startup
    \/ TickReloadRejected \/ TickReloadCrash \/ TickReloadPass \/ TickIdle
    \/ TickResilientFail \/ TickNormalFail
    \/ TickTimerCrash \/ TickTimerPass \/ TickTimerNoUpdate

\* main() under the scheduling of its loop: time.sleep returns, so the next
\* iteration is always eventually taken
SpecLive == Init /\ [][Next]_vars /\ WF_vars(MainNext)


----------------------------------------------------------------------------
(* SpecBackoff: handle_no_ip_available on bounded inputs.  A caller keeps    *)
(* the returned count and passes it to the next call, and resets it to 0     *)
(* after a success (lines 1450 and 1465).                                    *)

BackoffConfigs ==
    {[BaseCfg EXCEPT !.network_retry_interval = i, !.max_failures_before_backoff = t,
                     !.backoff_multiplier = m, !.max_wait_time = w] :
        i \in {1, 2, 5}, t \in {0, 1, 2}, m \in {1, 2, 3}, w \in {4, 20, 60}}

InitBackoff ==
    /\ InitMain
    /\ file_content = "A"
    /\ ipfile4 = "absent"
    /\ hn \in {[cfg |-> c, arg |-> 0, n |-> 0, wait |-> 0, called |-> FALSE] :
                 c \in BackoffConfigs}
    /\ InitNt /\ InitGt /\ InitAp /\ InitRs /\ InitVi

HnFailure ==
    /\ hn.n < MaxFailures
    /\ LET h == handle_no_ip_available(hn.n, hn.cfg)
       IN hn' = [hn EXCEPT !.arg = hn.n, !.n = h[1], !.wait = h[2], !.called = TRUE]
    /\ UNCHANGED <<mainvars, nt, gt, ap, rs, vi>>

HnSuccess ==
    /\ hn.n > 0
    /\ hn' = [hn EXCEPT !.arg = 0, !.n = 0, !.wait = 0, !.called = FALSE]
    /\ UNCHANGED <<mainvars, nt, gt, ap, rs, vi>>

NextBackoff == HnFailure \/ HnSuccess

SpecBackoff == InitBackoff /\ [][NextBackoff]_vars


----------------------------------------------------------------------------
(* SpecNotify: send_notifications called at any time with any level, while   *)
(* the clock advances and a configuration reload rebinds the notify section  *)
(* to a freshly parsed dictionary.                                           *)

InitNotify ==
    /\ InitMain /\ file_content = "A" /\ ipfile4 = "absent"
    /\ InitHn /\ InitGt /\ InitAp /\ InitRs /\ InitVi
    /\ \E f \in [Channels -> {Absent, [st |-> "corrupt", t |-> 0]}], cfg \in NotifyConfigs :
         nt = [now |-> 0, files |-> f, ncfg |-> cfg,
               disp |-> [c \in Channels |-> NoDispatch]]

\* time passes
NotifyClock ==
    /\ \E d \in ClockSteps :
         /\ nt.now + d <= MaxNow
         /\ nt' = [nt EXCEPT !.now = nt.now + d]
    /\ UNCHANGED <<mainvars, hn, gt, ap, rs, vi>>

\* main() reloads config.yaml: config["notify"] is a new dictionary
NotifyReload ==
    /\ \E cfg \in NotifyConfigs :
         /\ cfg # nt.ncfg
         /\ nt' = [nt EXCEPT !.ncfg = cfg]
    /\ UNCHANGED <<mainvars, hn, gt, ap, rs, vi>>

\* nt after one call of send_notifications with the given level and transports
AfterSend(level, tr) ==
    LET r == send_notifications(nt.ncfg, level, nt.now, nt.files, tr)
    IN [now |-> nt.now,
        files |-> r.files,
        ncfg |-> r.cfg,
        disp |-> [c \in Channels |->
                    IF c \in r.delivered
                    THEN [n |-> Min(nt.disp[c].n + 1, 2), last |-> nt.now,
                          prev |-> nt.disp[c].last]
                    ELSE nt.disp[c]]]

\* one call of send_notifications
NotifySend ==
    /\ \E level \in Levels, tr \in Transports : nt' = AfterSend(level, tr)
    /\ UNCHANGED <<mainvars, hn, gt, ap, rs, vi>>

NextNotify == NotifyClock \/ NotifyReload \/ NotifySend

SpecNotify == InitNotify /\ [][NextNotify]_vars

----------------------------------------------------------------------------
(* SpecGate: _can_send_notification on bounded inputs *)

InitGate ==
    /\ InitMain /\ file_content = "A" /\ ipfile4 = "absent"
    /\ InitHn /\ InitNt /\ InitAp /\ InitRs /\ InitVi
    /\ \E f \in FileStates, c \in {-1, 0, 1, 2} :
         gt = [file |-> f, cooldown |-> c, now |-> 0, res |-> FALSE, called |-> FALSE]

GateClock ==
    /\ \E d \in ClockSteps :
         /\ gt.now + d <= MaxNow
         /\ gt' = [gt EXCEPT !.now = gt.now + d, !.called = FALSE, !.res = FALSE]
    /\ UNCHANGED <<mainvars, hn, nt, ap, rs, vi>>

GateCall ==
    /\ gt.file.t <= gt.now
    /\ gt' = [gt EXCEPT !.res = can_send_notification(gt.file, gt.cooldown, gt.now),
                        !.called = TRUE]
    /\ UNCHANGED <<mainvars, hn, nt, ap, rs, vi>>

NextGate == GateClock \/ GateCall

SpecGate == InitGate /\ [][NextGate]_vars

----------------------------------------------------------------------------
(* SpecAttempt: update_provider applied to every provider kind, notify      *)
(* configuration and behaviour of the backend and of the notification       *)
(* transports, as the startup / reload pass and the timer pass call it.     *)

InitAttempt ==
    /\ InitMain
    /\ InitHn /\ InitNt /\ InitGt /\ InitRs /\ InitVi
    /\ ap \in AttemptInputs

AttemptCall ==
    /\ ~ap.called
    /\ ap' = [ap EXCEPT !.r = update_provider(ap.p, ap.hasNotify, ap.sc),
                        !.called = TRUE]
    /\ UNCHANGED <<mainvars, hn, nt, gt, rs, vi>>

NextAttempt == AttemptCall

SpecAttempt == InitAttempt /\ [][NextAttempt]_vars

----------------------------------------------------------------------------
(* SpecResolver: one IPv4 resolution of the timer pass, in DEGRADED_BACKOFF *)
(* (get_current_ip_resilient, that is IPResolver.get_ip_with_fallback) or   *)
(* in NORMAL_POLL, for every resolver configuration and every behaviour of  *)
(* the services and of the interface probe.                                 *)

InitResolver ==
    /\ InitMain /\ file_content = "A" /\ ipfile4 = "absent"
    /\ InitHn /\ InitNt /\ InitGt /\ InitAp /\ InitVi
    /\ rs \in [cfg : ResolverConfigs, env : ResolverEnvs, mode : {"none"},
               r : {NoResolution}]

\* resilient branch, line 1438
ResolveResilient ==
    /\ rs.mode = "none"
    /\ rs' = [rs EXCEPT !.mode = "resilient",
                        !.r = get_ip_with_fallback(rs.cfg, rs.env)]
    /\ UNCHANGED <<mainvars, hn, nt, gt, ap, vi>>

\* normal branch, lines 1475-1488
ResolveNormal ==
    /\ rs.mode = "none"
    /\ \E bind \in {"startup", "reload"} :
         rs' = [rs EXCEPT !.mode = "normal",
                          !.r = normal_resolution(rs.cfg, bind, rs.env)]
    /\ UNCHANGED <<mainvars, hn, nt, gt, ap, vi>>

NextResolver == ResolveResilient \/ ResolveNormal

SpecResolver == InitResolver /\ [][NextResolver]_vars

----------------------------------------------------------------------------
(* SpecValidate: validate_ipv4 applied to None and to every string of up to *)
(* MaxParts parts joined by dots.                                           *)

InitValidate ==
    /\ InitMain /\ file_content = "A" /\ ipfile4 = "absent"
    /\ InitHn /\ InitNt /\ InitGt /\ InitAp /\ InitRs
    /\ vi \in [arg : ValidateInputs, r : {"none"}, called : {FALSE}]

ValidateCall ==
    /\ ~vi.called
    /\ vi' = [vi EXCEPT !.r = validate_ipv4_str(vi.arg), !.called = TRUE]
    /\ UNCHANGED <<mainvars, hn, nt, gt, ap, rs>>

NextValidate == ValidateCall

SpecValidate == InitValidate /\ [][NextValidate]_vars

----------------------------------------------------------------------------
(* Claims *)

PassKinds == {"startup", "reload", "timer"}

FailureSet == SeqToSet(failed_providers) \cup SeqToSet(state.failed_providers)

ResolvedSome == Truthy(lastres.r4) \/ Truthy(lastres.r6)

\* C1: after every provider pass (startup, reload, timer-triggered) the
\* failure set (failed_providers and state.failed_providers) contains no
\* provider whose attempt in that pass returned updated or no_change,
\* whatever happened to the notification dispatch of that attempt.
C1_FailureSetHoldsNoSuccess ==
    (pc = "loop" /\ cycle.kind \in PassKinds) =>
        \A p \in cycle.ok : p \notin FailureSet

\* C2: in a timer-triggered cycle that resolved an address, every provider
\* that was in the failure set at the start of the cycle is attempted, even if
\* no address changed; it stays in the failure set while its attempt fails and
\* leaves it in the first cycle in which its attempt returns updated or
\* no_change.
C2_RetriedUntilSuccess ==
    (pc = "loop" /\ cycle.kind = "timer") =>
        \A p \in cycle.retry :
            /\ p \in SeqToSet(cycle.att)
            /\ p \in cycle.ok => p \notin FailureSet
            /\ p \notin cycle.ok => p \in FailureSet

\* C3: in a timer-triggered cycle that resolved an address, the providers
\* attempted are, exactly once each and in configuration order, those that
\* were in the failure set at the start of the cycle, or all of them if the
\* IPv4 or IPv6 address changed; no other provider is attempted.
C3_AttemptedIffEligible ==
    cycle.kind \in {"timer", "timer_noupdate", "timer_crash"} =>
        cycle.att = SelectSeq(providers, LAMBDA p : p \in cycle.retry \/ cycle.changed)

\* C4: a timer-triggered cycle in which every resolved address equals its
\* last-known address and the failure set is empty makes no provider call and
\* no notification dispatch, and leaves the last-known addresses, the
\* persisted address records and the failure set unchanged.
C4_IdleCycleChangesNothing ==
    [][ ( /\ TimerDue
          /\ file_mtime' = file_mtime
          /\ lastres'.r4 \in {NoneV, last_ip}
          /\ lastres'.r6 \in {NoneV, last_ip6}
          /\ (failed_providers = Undef \/ failed_providers = <<>>)
          /\ state.failed_providers = <<>> )
        => ( /\ cycle'.calls = 0
             /\ cycle'.att = <<>>
             /\ ~cycle'.notified
             /\ last_ip' = last_ip /\ last_ip6' = last_ip6
             /\ state'.last_ipv4 = state.last_ipv4
             /\ state'.last_ipv6 = state.last_ipv6
             /\ ipfile4' = ipfile4 /\ ipfile6' = ipfile6
             /\ failed_providers' = failed_providers
             /\ state'.failed_providers = state.failed_providers ) ]_vars

\* C4 witness: a timer-triggered cycle has just resolved the last-known IPv4
\* address with an empty failure set and made no update
C4_Witness ==
    /\ pc = "loop"
    /\ cycle.kind = "timer_noupdate"
    /\ Truthy(lastres.r4) /\ lastres.r4 = last_ip
    /\ failed_providers = <<>>
    /\ elapsed = 0

\* C5: once main() has entered the polling loop the process never terminates
\* on its own, whatever the discovery services, provider backends,
\* notification sends and configuration-file changes do.
C5_LoopNeverTerminates == pc # "crashed"

\* C6: in every state reached after a resolution attempt (startup, reload
\* pass, timer pass in either mode) resilient_mode is true iff the most recent
\* resolution attempt produced neither an IPv4 nor an IPv6 address.
C6_ResilientIffNoAddress ==
    (pc = "loop" /\ lastres.at # "none") =>
        /\ resilient_mode <=> ~ResolvedSome
        /\ state.resilient_mode <=> ~ResolvedSome

\* C7: no provider backend is called in a cycle in which neither address
\* family resolved (startup pass, reload pass, timer-triggered pass).
C7_NoCallsWithoutAddress ==
    (cycle.kind \in PassKinds /\ ~ResolvedSome) => cycle.calls = 0

\* the claim's exponentiation, written out for the exponents 0..4
C8_Power(m, e) ==
    CASE e <= 0 -> 1 [] e = 1 -> m [] e = 2 -> m * m [] e = 3 -> m * m * m
      [] e >= 4 -> m * m * m * m

C8_Wait(k, cfg) ==
    IF k <= cfg.max_failures_before_backoff
    THEN cfg.network_retry_interval
    ELSE Min(cfg.network_retry_interval
               * C8_Power(cfg.backoff_multiplier, k - cfg.max_failures_before_backoff),
             cfg.max_wait_time)

\* C8: handle_no_ip_available(n, config) returns the count n+1 and the wait
\* network_retry_interval while n+1 <= max_failures_before_backoff, and
\* min(network_retry_interval * backoff_multiplier^min(n+1 - threshold, 4),
\* max_wait_time) beyond; for threshold 2, interval 5, multiplier 2 the waits
\* are 5, 5, 10, 20; the wait stops growing once the exponent reaches 4.
C8_BackoffFormula ==
    hn.called =>
        /\ hn.n = hn.arg + 1
        /\ hn.wait = C8_Wait(hn.n, hn.cfg)
        /\ ( /\ hn.cfg.max_failures_before_backoff = 2
             /\ hn.cfg.network_retry_interval = 5
             /\ hn.cfg.backoff_multiplier = 2
             /\ hn.cfg.max_wait_time >= 20 /\ hn.n <= 4 )
           => hn.wait = <<5, 5, 10, 20>>[hn.n]
        /\ hn.n >= hn.cfg.max_failures_before_backoff + 4
           => hn.wait = Min(hn.cfg.network_retry_interval
                              * C8_Power(hn.cfg.backoff_multiplier, 4),
                            hn.cfg.max_wait_time)

\* C8 witness: the fourth consecutive failure of the example configuration
C8_Witness ==
    /\ hn.called
    /\ hn.cfg.max_failures_before_backoff = 2
    /\ hn.cfg.network_retry_interval = 5
    /\ hn.cfg.backoff_multiplier = 2
    /\ hn.cfg.max_wait_time = 60
    /\ hn.n = 4 /\ hn.wait = 20

\* C9: for every configuration and every number of consecutive failures the
\* wait returned by handle_no_ip_available never exceeds max_wait_time,
\* also while the count is at or below max_failures_before_backoff.
C9_WaitNeverExceedsMax == hn.called => hn.wait <= hn.cfg.max_wait_time

\* C10: a resolution attempt that yields at least one address resets
\* consecutive_failures to 0 (so that the next both-failed resolution yields
\* the flat network_retry_interval), whichever pass, timer-triggered or
\* reload, performed it.
C10_SuccessResetsFailures ==
    (pc = "loop" /\ lastres.at # "none" /\ ResolvedSome) => consecutive_failures = 0

----------------------------------------------------------------------------
(* Claims about the backoff counter, the mode transitions and the reload *)

\* the iterations that made a resolution attempt
ResolutionKinds == {"startup", "startup_skip", "reload", "resilient_fail", "normal_fail",
                    "timer", "timer_noupdate", "timer_crash"}

\* the iterations made because the timer had elapsed
TimerKinds == {"resilient_fail", "normal_fail", "timer", "timer_noupdate", "timer_crash"}

\* a step of main() (not a modification of config.yaml by the environment)
MainStep == pc \in {"init", "loop"} /\ file_mtime' = file_mtime

\* C11: consecutive_failures is incremented by exactly one on every
\* resolution attempt in which both families failed to resolve (and is 0 after
\* an attempt that resolved an address), so it always equals the number of
\* consecutive both-failed resolution attempts.
C11_CountsEveryFailedResolution ==
    [][ (MainStep /\ cycle'.kind \in ResolutionKinds)
        => consecutive_failures' =
              IF ~Truthy(lastres'.r4) /\ ~Truthy(lastres'.r6)
              THEN consecutive_failures + 1 ELSE 0 ]_vars

\* C12: after a timer-triggered resolution in NORMAL_POLL that yielded no
\* address, the next resolution attempt happens only after the backoff wait
\* for that failure has elapsed: when the wait is longer than one
\* check_interval, the next tick makes no resolution attempt.
C12_BackoffWaitAfterNormalFailure ==
    [][ ( /\ MainStep /\ pc = "loop" /\ ~ConfigChanged
          /\ cycle.kind = "normal_fail"
          /\ handle_no_ip_available(consecutive_failures, Cfg(config))[2] > check_interval )
        => cycle'.kind = "idle" ]_vars

\* C13: in DEGRADED_BACKOFF the first timer-triggered cycle in which a family
\* resolves returns the loop to NORMAL_POLL: resilient_mode becomes false, the
\* timer is the configured timer again, and the same cycle goes on to change
\* detection and the provider pass.
C13_ResolvedLeavesDegraded ==
    [][ ( /\ MainStep /\ TimerDue /\ Resilient
          /\ cycle'.kind \in TimerKinds
          /\ Truthy(lastres'.r4) \/ Truthy(lastres'.r6) )
        => ( /\ pc' = "loop"
             /\ ~resilient_mode' /\ ~state'.resilient_mode
             /\ timer' = Cfg(config).timer
             /\ cycle'.kind \in {"timer", "timer_noupdate"} ) ]_vars

\* C14: when config.yaml changed and its new content fails to parse or to
\* validate, the reload is discarded: the module-level config and every loop
\* parameter are the same as before the reload attempt.
C14_RejectedReloadKeepsConfig ==
    [][ (MainStep /\ pc = "loop" /\ cycle'.kind = "rejected")
        => ( /\ config' = config
             /\ timer' = timer /\ providers' = providers
             /\ ip_service' = ip_service /\ ip_interface' = ip_interface
             /\ ip6_service' = ip6_service /\ ip6_interface' = ip6_interface ) ]_vars

\* C15: after a rejected reload, while the invalid file stays on disk
\* unmodified, the loop still does its timer-triggered work: a tick at which
\* the timer has elapsed makes a timer-triggered resolution.
C15_TimerWorkAfterRejectedReload ==
    [][ ( /\ MainStep /\ pc = "loop"
          /\ cycle.kind = "rejected"
          /\ elapsed + check_interval >= timer )
        => cycle'.kind \in TimerKinds ]_vars

\* C16: a successful configuration reload from any state leaves the loop in
\* NORMAL_POLL: resilient_mode is false, the backoff counter is 0, elapsed is
\* 0 and the timer is the new configuration's timer.
C16_ReloadLeavesNormalPoll ==
    (pc = "loop" /\ cycle.kind = "reload") =>
        /\ ~resilient_mode /\ ~state.resilient_mode
        /\ consecutive_failures = 0
        /\ elapsed = 0
        /\ timer = Cfg(config).timer

\* C17: after a successful reload every loop parameter has the value a fresh
\* startup with the new configuration computes; the primary discovery service
\* is the first entry of the service list when only a list is configured.
C17_ReloadBindsAsStartup ==
    (pc = "loop" /\ cycle.kind = "reload") =>
        LET cfg == Cfg(config)
        IN /\ timer = cfg.timer
           /\ providers = cfg.providers
           /\ ip_service = StartupService(cfg.ip_service, cfg.ip_services)
           /\ ip6_service = StartupService(cfg.ip6_service, cfg.ip6_services)
           /\ ip_interface = cfg.interface
           /\ ip6_interface = cfg.interface6

----------------------------------------------------------------------------
(* Claims about the notification cooldown *)

\* C18: _can_send_notification(channel, cooldown_minutes) allows the send iff
\* cooldown_minutes is unset or <= 0, or no last-sent record exists, or the
\* record is corrupt or unreadable, or now - last_sent >= cooldown_minutes * 60;
\* a send exactly cooldown_minutes * 60 seconds after the recorded send is
\* allowed and any earlier one is suppressed.
C18_GateDecision ==
    gt.called =>
        /\ gt.res <=> \/ gt.cooldown <= 0
                      \/ gt.file.st = "absent"
                      \/ gt.file.st \in {"corrupt", "unreadable"}
                      \/ gt.now - gt.file.t >= gt.cooldown * 60
        /\ (gt.cooldown > 0 /\ gt.file.st = "ok")
           => /\ gt.now = gt.file.t + gt.cooldown * 60 => gt.res
              /\ gt.now < gt.file.t + gt.cooldown * 60 => ~gt.res

\* C18 witness: a send exactly one cooldown after the recorded send is allowed
C18_Witness ==
    /\ gt.called /\ gt.res
    /\ gt.cooldown = 1 /\ gt.file.st = "ok"
    /\ gt.now = gt.file.t + 60

\* C19: for each channel configured with a cooldown of c > 0 minutes, the
\* times of any two notifications dispatched on that channel differ by at
\* least c * 60 seconds, over any sequence of send_notifications calls and
\* across configuration reloads.
C19_DispatchesAreSpaced ==
    \A c \in Channels :
        (nt.disp[c].n >= 2 /\ Cooldown(nt.ncfg.ch[c]) > 0)
        => nt.disp[c].last - nt.disp[c].prev >= Cooldown(nt.ncfg.ch[c]) * 60

\* C20: send_notifications sets a channel's last-sent timestamp to the
\* current time exactly when the channel is enabled, the level is in its
\* notify_on and the gate allowed the send (whether or not the transport
\* succeeded); otherwise the channel's timestamp is left unchanged, and one
\* channel's send or suppression never changes another channel's timestamp
\* or gate decision.
C20_TimestampSetIffSendAllowed ==
    [][ \A level \in Levels, tr \in Transports :
          (nt' = AfterSend(level, tr) /\ UNCHANGED <<mainvars, hn, gt, ap, rs, vi>>)
          => \A c \in Channels :
               LET ccfg == nt.ncfg.ch[c]
                   allowed == /\ ccfg.enabled
                              /\ level \in ccfg.notify_on
                              /\ can_send_notification(nt.files[c], Cooldown(ccfg), nt.now)
               IN nt'.files[c] = IF allowed THEN [st |-> "ok", t |-> nt.now]
                                 ELSE nt.files[c] ]_vars

----------------------------------------------------------------------------
(* Claims about one provider attempt (SpecAttempt) *)

\* what the first backend call of the attempt does
FirstOutcome == IF UnifiedValid(ap.p) THEN ap.sc.b1 ELSE ap.sc.b2

\* the number of send_notifications calls of the attempt made with level lv
Dispatches(lv) == Cardinality({i \in 1..Len(ap.r.notifs) : ap.r.notifs[i] = lv})

\* the calling pass puts the provider into failed_providers
InFailureSet == FailedOf(<<Att(ap.p, ap.r)>>, ap.stop) # <<>>

\* C21: when the backend of an attempted provider returns updated, the attempt
\* makes exactly one send_notifications call with level UPDATE, calls the
\* backend once, and the provider is not in the failure set afterwards.
C21_UpdatedNotifiesOnce ==
    (ap.called /\ FirstOutcome = "updated") =>
        /\ Dispatches("UPDATE") = 1
        /\ ap.r.calls = 1
        /\ ~InFailureSet

\* C22: when the backend of an attempted provider reports an error (an error
\* result or an exception), the attempt makes exactly one send_notifications
\* call with level ERROR and the provider is added to the failure set, on the
\* unified path as well as on the legacy path.
C22_ErrorNotifiesOnce ==
    (ap.called /\ FirstOutcome \in {"error", "raise"}) =>
        /\ Dispatches("ERROR") = 1
        /\ InFailureSet

\* C23: when the backend returns nochg, the attempt makes no send_notifications
\* call, update_provider returns True and the provider is not in the failure
\* set.
C23_NoChangeIsSilentSuccess ==
    (ap.called /\ FirstOutcome = "nochg") =>
        /\ ap.r.notifs = <<>>
        /\ ap.r.ret = "True"
        /\ ap.r.calls = 1
        /\ ~InFailureSet

\* an unchanged record was reported by a unified and by a legacy provider
\* while a notify configuration exists
C23_Witness ==
    /\ ap.called /\ ap.hasNotify /\ ap.sc.nfail > 0
    /\ FirstOutcome = "nochg" /\ ap.r.out = "nochg"
    /\ ap.r.ret = "True"

\* C24: update_provider never raises, whatever the backend and the
\* notification transports do; it returns True when the backend's outcome is
\* updated or nochg and a falsy value (False or None) when the backend returns
\* an error or raises.
C24_AttemptNeverRaises ==
    ap.called =>
        /\ ap.r.ret # "raise"
        /\ FirstOutcome \in {"updated", "nochg"} => ap.r.ret = "True"
        /\ FirstOutcome \in {"error", "raise"} => ap.r.ret \in {"False", "None"}

\* C25: a failing notification transport never propagates to the caller:
\* whatever the transports of a send_notifications call do, the call returns
\* normally and every enabled channel whose level matches and whose gate is
\* open is attempted (its timestamp is set), also the channels after the
\* failing one.
C25_TransportFailureContained ==
    [][ \A level \in Levels, tr \in Transports :
          (nt' = AfterSend(level, tr) /\ UNCHANGED <<mainvars, hn, gt, ap, rs, vi>>)
          => LET r == send_notifications(nt.ncfg, level, nt.now, nt.files, tr)
                 f0 == IF nt.ncfg.reset THEN [c \in Channels |-> Absent] ELSE nt.files
             IN /\ ~r.raised
                /\ \A c \in Channels :
                     LET ccfg == nt.ncfg.ch[c]
                     IN (/\ ccfg.enabled
                         /\ level \in ccfg.notify_on
                         /\ can_send_notification(f0[c], Cooldown(ccfg), nt.now))
                        => nt'.files[c] = [st |-> "ok", t |-> nt.now] ]_vars

----------------------------------------------------------------------------
(* Claims about the IPv4 resolution (SpecResolver) *)

\* the candidate services whose request yields an address
Answering(sv) == {i \in 1..Len(sv) : Response(rs.env, sv[i]) = "valid"}

\* C26: get_ip_with_fallback queries the candidate services strictly in list
\* order, each at most once, and returns the first answer the validator
\* accepts at once: no later service is queried and the interface is not
\* probed after it.
C26_FirstValidServiceWins ==
    rs.mode = "resilient" =>
        LET sv == get_services(rs.cfg)
            q == rs.r.queried
        IN /\ Len(q) <= Len(sv)
           /\ \A i \in 1..Len(q) : q[i] = sv[i]
           /\ \A i, j \in 1..Len(q) : i # j => q[i] # q[j]
           /\ IF Answering(sv) = {}
              THEN Len(q) = Len(sv)
              ELSE LET k == CHOOSE n \in Answering(sv) : \A m \in Answering(sv) : n <= m
                   IN /\ Len(q) = k
                      /\ rs.r.ip = Addr(sv[k])
                      /\ ~rs.r.probed

\* services [A, B, C] with A failing and B and C answering: B's address is
\* returned and C is never queried
C26_Witness ==
    /\ rs.mode = "resilient"
    /\ rs.cfg.ip_services = <<"A", "B", "C">>
    /\ rs.env.resp["A"] = "raise" /\ rs.env.resp["B"] = "valid"
    /\ rs.env.resp["C"] = "valid"
    /\ rs.r.ip = Addr("B")
    /\ rs.r.queried = <<"A", "B">>

\* C27: when every candidate service fails, get_ip_with_fallback returns the
\* address of the interface probe if enable_interface_fallback is true (the
\* default) and the probe yields an address; with the fallback disabled the
\* interface is never probed and the result is None; when the probe fails or
\* raises the result is None.
C27_InterfaceFallback ==
    (rs.mode = "resilient" /\ Answering(get_services(rs.cfg)) = {}) =>
        /\ Len(rs.r.queried) = Len(get_services(rs.cfg))
        /\ IF rs.cfg.fallback = "false"
           THEN ~rs.r.probed /\ rs.r.ip = NoneV
           ELSE IF rs.cfg.interface # NoneV /\ rs.env.probe = InterfaceAddr
           THEN rs.r.probed /\ rs.r.ip = InterfaceAddr
           ELSE rs.r.ip = NoneV

\* every configured service failed and the interface supplied the address
C27_Witness ==
    /\ rs.mode = "resilient"
    /\ rs.cfg.ip_services = <<"A", "B">>
    /\ rs.env.resp["A"] = "raise" /\ rs.env.resp["B"] = "garbage"
    /\ rs.cfg.fallback = "true" /\ rs.cfg.interface = "eth0"
    /\ rs.r.queried = <<"A", "B">> /\ rs.r.probed
    /\ rs.r.ip = InterfaceAddr

\* the first occurrences of the entries of a list, in list order
FirstOccurrences(l) ==
    LET keep == {i \in 1..Len(l) : \A j \in 1..(i - 1) : l[j] # l[i]}
        pos(k) == CHOOSE i \in keep : Cardinality({j \in keep : j < i}) = k - 1
    IN [k \in 1..Cardinality(keep) |-> l[pos(k)]]

\* C28: the candidate list of a resolution is the explicitly configured
\* primary service first (if one is configured), followed by the configured
\* service list, with duplicates removed in list order; the built-in default
\* list is used only when no list is configured.
C28_CandidateList ==
    rs.mode = "resilient" =>
        LET explicit == IF rs.cfg.ip_service # NoneV THEN <<rs.cfg.ip_service>> ELSE <<>>
            expected == IF rs.cfg.ip_services # <<>>
                        THEN FirstOccurrences(explicit \o rs.cfg.ip_services)
                        ELSE FirstOccurrences(
                                 (IF explicit # <<>> THEN explicit ELSE <<DefaultPrimary>>)
                                 \o fallback_services)
        IN /\ get_services(rs.cfg) = expected
           /\ Answering(expected) = {} => rs.r.queried = expected

\* C29: get_ip_with_fallback never raises, whatever the services and the
\* interface probe do; it returns None or an address.
C29_ResolverNeverRaises ==
    rs.mode = "resilient" =>
        /\ ~rs.r.raised
        /\ rs.r.ip = NoneV \/ validate_ipv4(rs.r.ip)

\* a request raised, another service answered with text that is no address,
\* and the interface probe raised: the result is None
C29_Witness ==
    /\ rs.mode = "resilient"
    /\ rs.cfg.ip_services = <<"A", "B">>
    /\ rs.env.resp["A"] = "raise" /\ rs.env.resp["B"] = "garbage"
    /\ rs.cfg.fallback # "false" /\ rs.cfg.interface = "eth0"
    /\ rs.env.probe = "raise"
    /\ rs.r.probed /\ rs.r.ip = NoneV /\ ~rs.r.raised

\* C30: every timer-triggered IPv4 resolution, in NORMAL_POLL as well as in
\* DEGRADED_BACKOFF, applies the resolver's full fallback chain: when the
\* first service queried fails and the chain would return an address, the
\* cycle's IPv4 address is that address and not None.
C30_EveryResolutionUsesChain ==
    (/\ rs.mode \in {"normal", "resilient"}
     /\ rs.r.queried # <<>>
     /\ get_public_ip(rs.env, rs.r.queried[1]) = NoneV
     /\ get_ip_with_fallback(rs.cfg, rs.env).ip # NoneV)
    => rs.r.ip = get_ip_with_fallback(rs.cfg, rs.env).ip

----------------------------------------------------------------------------
(* Claims about the last-known addresses and the startup *)

\* C31: in every reachable state the last-known addresses (main's last_ip and
\* last_ip6, state.last_ipv4 and state.last_ipv6) are each None or an address
\* the validator of the family accepts, including the values loaded from the
\* persisted files at startup.
C31_LastKnownIsNoneOrValid ==
    /\ last_ip = NoneV \/ last_ip \in V4
    /\ state.last_ipv4 = NoneV \/ state.last_ipv4 \in V4
    /\ last_ip6 = NoneV \/ last_ip6 \in V6
    /\ state.last_ipv6 = NoneV \/ state.last_ipv6 \in V6

\* the iteration just made was a startup, a reload pass or a timer pass
AfterCycle == pc = "loop" /\ cycle.kind \in {"startup", "startup_skip", "reload", "timer"}

\* C32: after every cycle (startup, reload pass or timer-triggered pass) in
\* which a family resolved to a valid address, the persisted last-known record
\* of that family equals that address and equals the in-memory last-known
\* address.
C32_PersistedEqualsResolved ==
    AfterCycle =>
        /\ Truthy(lastres.r4) =>
             (load_last_ip(ipfile4) = lastres.r4 /\ last_ip = lastres.r4
              /\ state.last_ipv4 = lastres.r4)
        /\ Truthy(lastres.r6) =>
             (load_last_ip(ipfile6) = lastres.r6 /\ last_ip6 = lastres.r6
              /\ state.last_ipv6 = lastres.r6)

\* the step is the startup of main (lines 1225-1342)
StartupStep == pc = "init" /\ pc' \in {"loop", "startup_crashed"}

\* C33: at startup the initial provider pass is skipped (no provider call, no
\* notification) iff skip_update_on_startup is true and no resolved address
\* differs from its persisted value; in every other case each configured
\* provider is attempted exactly once, in configuration order.
C33_StartupPassSkippedIff ==
    [][ StartupStep =>
          LET cfg == Cfg(config')
              differs4 == Truthy(lastres'.r4) /\ lastres'.r4 # load_last_ip(ipfile4)
              differs6 == Truthy(lastres'.r6) /\ lastres'.r6 # load_last_ip(ipfile6)
          IN IF cfg.skip_update_on_startup /\ ~differs4 /\ ~differs6
             THEN /\ cycle'.att = <<>>
                  /\ cycle'.calls = 0
                  /\ ~cycle'.notified
             ELSE cycle'.att = cfg.providers ]_vars

\* the providers the pass of the cycle has to attempt, in configuration order
EligibleSeq ==
    LET E == IF cycle.kind = "timer" THEN Eligible(cycle.retry, cycle.changed)
             ELSE SeqToSet(providers)
        Test(p) == p \in E
    IN SelectSeq(providers, Test)

\* a provider of the pass failed after another one had succeeded
FailedAfterSuccess ==
    \E i, j \in 1..Len(cycle.att) :
        /\ i < j
        /\ cycle.att[i] \in cycle.ok /\ cycle.att[i] \notin FailureSet
        /\ cycle.att[j] \in FailureSet \/ (j = Len(cycle.att) /\ pc # "loop")

\* C34: in a provider pass where one provider fails (error result or
\* exception) after others have succeeded, the pass still attempts every
\* remaining eligible provider, and at the end of the pass the last-known
\* addresses equal the cycle's resolved addresses; only the failure set
\* records the failure.
C34_FailureDoesNotStopPass ==
    (cycle.kind \in PassKinds /\ FailedAfterSuccess) =>
        /\ cycle.att = EligibleSeq
        /\ last_ip = lastres.r4 /\ last_ip6 = lastres.r6
        /\ state.last_ipv4 = lastres.r4 /\ state.last_ipv6 = lastres.r6

\* C35: the configuration in force always has a poll timer and a non-empty
\* provider list, after startup and after every accepted reload: a changed
\* file whose provider list is empty is rejected.
C35_ConfigInForceIsComplete ==
    pc = "loop" =>
        /\ providers # <<>>
        /\ cycle.kind \in {"startup", "startup_skip", "reload"} =>
             (Cfg(config).hasTimer /\ Cfg(config).providers # <<>>)

\* from here on every resolution yields the addresses a4 and a6 (a6 is None
\* only when no IPv6 source is configured) and the backend of every attempted
\* provider returns updated or nochg
Stable(a4, a6) ==
    /\ pc # "init"
    /\ config \in ValidContents
    /\ lastres.r4 = a4 /\ lastres.r6 = a6
    /\ a6 = NoneV => NormalSrc6(Cfg(config), ip6_interface) = "none"
    /\ cycle.kind \in PassKinds => SeqToSet(cycle.att) \subseteq cycle.ok

\* the loop runs, the failure set is empty, the last-known addresses are the
\* resolved ones and the timer cycles make no provider call
Converged(a4, a6) ==
    /\ pc = "loop"
    /\ failed_providers # Undef /\ failed_providers = <<>>
    /\ state.failed_providers = <<>>
    /\ last_ip = a4 /\ last_ip6 = a6
    /\ cycle.kind \in TimerKinds => cycle.calls = 0

\* C36: if from some cycle on the configuration file is unchanged, each
\* family's resolved address is constant and valid and every provider attempt
\* returns updated or nochg, then eventually the failure set is empty, the
\* last-known addresses equal the resolved ones and no timer-triggered cycle
\* makes a provider call any more, from every startup path.
C36_Converges ==
    \A a4 \in V4, a6 \in V6 \cup {NoneV} :
        (<>[]Stable(a4, a6)) => (<>[]Converged(a4, a6))

\* the value of a group of decimal digits
RECURSIVE GroupValue(_)
GroupValue(g) ==
    IF g = <<>> THEN 0
    ELSE DigitValue(Head(g)) * 10 ^ (Len(g) - 1) + GroupValue(Tail(g))

\* a non-empty group of decimal digits with a value of 0..255
IsGroup(g) ==
    /\ Len(g) > 0
    /\ \A i \in 1..Len(g) : g[i] \in DecimalDigits
    /\ GroupValue(g) \in 0..255

\* exactly four such groups separated by dots, and nothing else
IsDottedQuad(s) ==
    LET dots == {i \in 1..Len(s) : s[i] = "."}
    IN /\ Cardinality(dots) = 3
       /\ \E i \in dots, j \in dots, k \in dots :
            /\ i < j /\ j < k
            /\ IsGroup(SubSeq(s, 1, i - 1))
            /\ IsGroup(SubSeq(s, i + 1, j - 1))
            /\ IsGroup(SubSeq(s, j + 1, k - 1))
            /\ IsGroup(SubSeq(s, k + 1, Len(s)))

C38_SkipStartupLeavesRetrySetEmpty ==
    /\ (pc = "loop" /\ cycle.kind = "startup_skip") =>
           (failed_providers # Undef /\ failed_providers = <<>>)
    /\ cycle.kind # "timer_crash"

\* a completed cycle: the startup, a reload pass or a timer-triggered pass
CycleStep ==
    /\ MainStep
    /\ pc' = "loop"
    /\ cycle'.kind \in {"startup", "startup_skip", "reload", "timer"}

\* C39: a cycle (startup, reload pass, timer-triggered pass) in which one
\* family's resolution returned no address leaves that family's last-known
\* address as it was, in memory (at startup: the value loaded from the file)
\* and in its persisted file.
C39_FailedResolutionKeepsLastKnown ==
    [][CycleStep =>
        /\ lastres'.r4 = NoneV =>
              /\ ipfile4' = ipfile4
              /\ last_ip' = (IF pc = "init" THEN load_last_ip(ipfile4) ELSE last_ip)
        /\ lastres'.r6 = NoneV =>
              /\ ipfile6' = ipfile6
              /\ last_ip6' = (IF pc = "init" THEN load_last_ip(ipfile6) ELSE last_ip6)]_vars

\* C40: with reset_cooldown_on_start set, the cooldown records are deleted at
\* most once per process start: a send_notifications call made after an
\* earlier call has written a record does not delete the cooldown records,
\* also after a configuration reload or with another notify dictionary.
C40_CooldownResetOnlyOnce ==
    [][ \A level \in Levels, tr \in Transports :
          ( /\ nt' = AfterSend(level, tr)
            /\ UNCHANGED <<mainvars, hn, gt, ap, rs, vi>>
            /\ \E c \in Channels : nt.files[c].st = "ok" )
          => /\ ~nt.ncfg.reset
             /\ \A c \in Channels : nt.files[c].st = "ok" => nt'.files[c].st = "ok" ]_vars

====
